---- MODULE Spec2Model ----
(***************************************************************************)
(* Model of BCNN.py: the bilinear AlexNet (BilinearAlex), its manager      *)
(* (BilinearAlexManager: construction, train(), test()) and the dataset    *)
(* indexer sun360h_data_load.                                              *)
(*                                                                         *)
(* Python values are written by their literal: "None" is the None object,  *)
(* "'part'" the string 'part', "''" the empty string.  Row and candidate   *)
(* indices are 0-based as in the source; TLA+ sequences are 1-based, so    *)
(* element k of a Python list s is s[k + 1].                               *)
(***************************************************************************)
EXTENDS Integers, Sequences, FiniteSets, TLC

VARIABLES
    \* ---- sun360h_data_load ----
    ld_pc,        \* position inside sun360h_data_load
    ld_part,      \* argument part
    ld_ver,       \* argument ver
    ld_batch,     \* argument batch
    gt_path,      \* resolved ground-truth file name
    gt_list,      \* rows of the ground-truth table: positive_index of each row
    idx,          \* np.random.permutation(gt_len)
    i,            \* outer loop variable of range(0, gt_len, batch)
    jpos,         \* number of rows of the current slice already handled
    a_bacth,      \* anchors of the batch under construction
    p_batch,      \* positives of the batch under construction
    n_batch,      \* negatives of the batch under construction
    result,       \* list of finished batches
    \* ---- BilinearAlex / BilinearAlexManager ----
    pc,           \* position of the single thread of control
    exc,          \* exception being propagated ("none" when there is none)
    freeze,       \* constructor argument freeze
    requires_grad,\* requires_grad flag of every parameter group
    param,        \* value (version) of every parameter group
    has_solver,   \* whether self._solver / self._scheduler exist
    solver_params,\* parameter groups handed to the SGD optimizer
    lr,           \* learning rate of the optimizer, in units of 1e-4
    num_bad_epochs,\* scheduler's count of epochs without improvement
    _batch,       \* self._batch
    _epoch,       \* self._epoch
    n_train,      \* rows of the train ground-truth table
    n_test,       \* rows of the test ground-truth table
    t,            \* epoch loop variable of train()
    batches,      \* len(a) of every batch returned by _data_loader()
    bi,           \* number of batches of the current traversal consumed
    iter_num,     \* train(): iter_num
    epoch_loss,   \* train(): epoch_loss
    printed,      \* losses reported by train() in the current epoch
    dists,        \* test(): (d(a,p), d(a,n)) of every row of the current batch
    seen,         \* test(): (d(a,p), d(a,n)) of every row handled so far
    num_correct,  \* test(): num_correct
    num_total,    \* test(): num_total
    accuracy,     \* test(): the reported pair (num_correct, num_total)
    saved,        \* checkpoints written by the current train() run
    processed,    \* optimizer steps completed by the current train() run
    fwd,          \* forward passes made by the current call
    train_end     \* how the latest train() call ended: "never", "returned" or its exception

ld_vars == <<ld_pc, ld_part, ld_ver, ld_batch, gt_path, gt_list, idx, i, jpos,
             a_bacth, p_batch, n_batch, result>>

net_vars == <<freeze, requires_grad, param, has_solver,
              solver_params, lr, num_bad_epochs, _batch, _epoch>>

run_vars == <<pc, exc, n_train, n_test, t, batches, bi, iter_num, epoch_loss,
              printed, dists, seen, num_correct, num_total, accuracy, saved,
              processed, fwd, train_end>>

vars == <<ld_vars, net_vars, run_vars>>

----------------------------------------------------------------------------
\* Bounds of the model.

MaxRows == 3          \* rows of the ground-truth table read by the loader
MaxTrainRows == 2     \* rows of the train table of a manager
MaxTestRows == 1      \* rows of the test table of a manager
MaxEvalRows == 3      \* rows of the test table in the evaluation runs
MaxBatch == 2         \* largest batch size
MaxEpoch == 2         \* largest epoch count of the small runs
MaxDist == 2          \* largest squared distance d(a,p), d(a,n)
ParamVersions == 2    \* distinct values a parameter group cycles through
MaxLongRows == 51     \* rows of the train table in the long runs
MaxLongEpoch == 5     \* largest epoch count of the long runs

----------------------------------------------------------------------------
\* Helpers.

Min(a, b) == IF a < b THEN a ELSE b

\* All orders of 0..n-1, as 1-based sequences.
Permutations0(n) ==
    {s \in [1..n -> 0..(n - 1)] : \A x, y \in 1..n : x # y => s[x] # s[y]}

----------------------------------------------------------------------------
\* sun360h_data_load

NumCandidates == 10

\* [k for k in range(10) if k != pos], as a 1-based sequence.
RECURSIVE OthersFrom(_, _)
OthersFrom(k, pos) ==
    IF k >= NumCandidates THEN <<>>
    ELSE IF k # pos THEN <<k>> \o OthersFrom(k + 1, pos)
    ELSE OthersFrom(k + 1, pos)

Others(pos) == OthersFrom(0, pos)

\* Variant: the draw indexes the candidate list itself.
NegIndexUnfiltered(pos, r) == r

\* names[1][[k for k in range(10) if k != pos][r]]: the candidate index used.
NegIndex(pos, r) == Others(pos)[r + 1]

\* np.random.randint(9)
RandInt9 == 0..8

\* min(i + batch, gt_len): end of the slice idx[i:min(i+batch, gt_len)]
SliceEnd(k, b, n) == Min(k + b, n)

\* Variant: the slice starts one element late.
SliceLate(s, k, b) == SubSeq(s, k + 2, SliceEnd(k, b, Len(s)))

\* idx[i:min(i+batch, gt_len)]
Slice(s, k, b) == SubSeq(s, k + 1, SliceEnd(k, b, Len(s)))

\* len(a) of the batches built by `for i in range(0, gt_len, batch)`.
RECURSIVE BatchLensFrom(_, _, _)
BatchLensFrom(k, b, n) ==
    IF k >= n THEN <<>>
    ELSE <<SliceEnd(k, b, n) - k>> \o BatchLensFrom(k + b, b, n)

BatchLens(n, b) == BatchLensFrom(0, b, n)

\* Ground-truth tables used as inputs: row j has positive_index
\* (base + j) % 10.
GtTable(base, n) == [j \in 1..n |-> (base + (j - 1)) % NumCandidates]

\* The tables tried: one of every length 0..MaxRows, and tables of up to
\* MaxRows rows that together hold every positive_index 0..9.
GtBases == {base \in 0..(NumCandidates - 1) : base % MaxRows = 0}

GtTables ==
    {GtTable(0, n) : n \in 0..MaxRows}
        \cup {GtTable(base, Min(MaxRows, NumCandidates - base)) :
                base \in GtBases}

\* (part, ver, table) inputs tried: the default arguments with every table,
\* the other versions (which differ in the file names only) and the
\* rejected arguments with one table each.
LoadInputs ==
    {<<"train", 0, tbl>> : tbl \in GtTables}
        \cup {<<"test", 1, GtTable(2, 1)>>, <<"test", 2, GtTable(5, 1)>>,
              <<"val", 0, GtTable(0, 1)>>, <<"train", 5, GtTable(0, 1)>>}

\* Lines 159-175: the ground-truth file name, or the error raised.
GtPath(part, ver) ==
    IF part \notin {"train", "test"} THEN "ValueError"
    ELSE IF ver = 0 THEN "gt_" \o part \o ".csv"
    ELSE IF ver = 1 THEN "gt_" \o part \o "_v1.csv"
    ELSE IF ver = 2 THEN "gt_" \o part \o "_v2.csv"
    ELSE "ValueError"

ld_Idle ==
    /\ ld_pc = "off" /\ ld_part = "train" /\ ld_ver = 0 /\ ld_batch = 1
    /\ gt_path = "" /\ gt_list = <<>> /\ idx = <<>> /\ i = 0 /\ jpos = 0
    /\ a_bacth = <<>> /\ p_batch = <<>> /\ n_batch = <<>> /\ result = <<>>

\* Lines 155-175: argument checks and path resolution.
LoadResolve ==
    /\ ld_pc = "start"
    /\ gt_path' = GtPath(ld_part, ld_ver)
    /\ ld_pc' = IF GtPath(ld_part, ld_ver) = "ValueError" THEN "raised"
                ELSE "open"
    /\ UNCHANGED <<ld_part, ld_ver, ld_batch, gt_list, idx, i, jpos, a_bacth,
                   p_batch, n_batch, result>>
    /\ UNCHANGED <<net_vars, run_vars>>

\* Lines 177-182: the table is read (it is the input gt_list), result is
\* emptied and a permutation of the row indices is drawn.
LoadOpen ==
    /\ ld_pc = "open"
    /\ \E perm \in Permutations0(Len(gt_list)) : idx' = perm
    /\ result' = <<>>
    /\ ld_pc' = "for"
    /\ UNCHANGED <<ld_part, ld_ver, ld_batch, gt_path, gt_list, i, jpos,
                   a_bacth, p_batch, n_batch>>
    /\ UNCHANGED <<net_vars, run_vars>>

\* Lines 184-185 and 194: range(0, gt_len, batch) yields k and the batch
\* lists are emptied, or the loop ends and result is returned.
LoopHead(k) ==
    /\ i' = k
    /\ IF k < Len(gt_list)
       THEN /\ a_bacth' = <<>> /\ p_batch' = <<>> /\ n_batch' = <<>>
            /\ jpos' = 0
            /\ ld_pc' = "row"
       ELSE /\ ld_pc' = "returned"
            /\ UNCHANGED <<a_bacth, p_batch, n_batch, jpos>>

\* Lines 184-185: the loop is entered.
LoadFor ==
    /\ ld_pc = "for"
    /\ LoopHead(0)
    /\ UNCHANGED <<ld_part, ld_ver, ld_batch, gt_path, gt_list, idx, result>>
    /\ UNCHANGED <<net_vars, run_vars>>

\* Lines 186-191: one row j of the slice: anchor, positive and a negative
\* drawn among the nine other candidates.  A path is modelled by the pair
\* (row, candidate index); the anchor is names[0].
LoadRow ==
    /\ ld_pc = "row"
    /\ jpos < Len(Slice(idx, i, ld_batch))
    /\ LET j == Slice(idx, i, ld_batch)[jpos + 1]
           pos == gt_list[j + 1]
       IN \E r \in RandInt9 :
            /\ a_bacth' = Append(a_bacth, <<j, "anchor">>)
            /\ p_batch' = Append(p_batch, <<j, pos>>)
            /\ n_batch' = Append(n_batch, <<j, NegIndex(pos, r)>>)
    /\ jpos' = jpos + 1
    /\ UNCHANGED <<ld_pc, ld_part, ld_ver, ld_batch, gt_path, gt_list, idx, i,
                   result>>
    /\ UNCHANGED <<net_vars, run_vars>>

\* Line 192, and the next turn of the outer loop (lines 184-185).
LoadAppend ==
    /\ ld_pc = "row"
    /\ jpos = Len(Slice(idx, i, ld_batch))
    /\ result' = Append(result, <<a_bacth, p_batch, n_batch>>)
    /\ LoopHead(i + ld_batch)
    /\ UNCHANGED <<ld_part, ld_ver, ld_batch, gt_path, gt_list, idx>>
    /\ UNCHANGED <<net_vars, run_vars>>

----------------------------------------------------------------------------
\* BilinearAlex

PyNone == "None"
FreezePart == "'part'"
FreezeAll == "'all'"

\* Values passed as freeze.
FreezeValues == {PyNone, FreezePart, FreezeAll, "'none'", "'bogus'", "''"}

\* Python truth value of a freeze argument (`if freeze:`).
Truthy(v) == v \notin {PyNone, "''"}

\* list(models.alexnet().classifier.children())
ClassifierChildren ==
    <<"Dropout0", "Linear1", "ReLU2", "Dropout3", "Linear4", "ReLU5", "Linear6">>

\* Lines 13-15: the classifier without its last layer, plus Linear(4096, 512).
bfc == SubSeq(ClassifierChildren, 1, Len(ClassifierChildren) - 1) \o <<"bfc_last">>

\* layer.parameters() of a layer of bfc: only Linear layers hold parameters.
LayerParams(layer) ==
    IF layer = "Linear1" THEN {"bfc.1"}
    ELSE IF layer = "Linear4" THEN {"bfc.4"}
    ELSE IF layer = "bfc_last" THEN {"bfc.6"}
    ELSE {}

SeqParams(layers) == UNION {LayerParams(layers[k]) : k \in 1..Len(layers)}

FeaturesParams == {"features"}
FcParams == {"fc"}

\* self.parameters()
Groups == FeaturesParams \cup SeqParams(bfc) \cup FcParams

\* self.bfc[:-1]
BfcButLast == SubSeq(bfc, 1, Len(bfc) - 1)

\* self.bfc[-1]
BfcLast == bfc[Len(bfc)]

\* Variant: 'part' walks the whole of self.bfc.
_freezeWholeBfc(option) ==
    IF option = FreezePart
    THEN [err |-> "none", frozen |-> FeaturesParams \cup SeqParams(bfc)]
    ELSE IF option = FreezeAll
    THEN [err |-> "none",
          frozen |-> FeaturesParams \cup SeqParams(bfc) \cup FcParams]
    ELSE [err |-> "ValueError", frozen |-> {}]

\* Lines 48-63: the parameter groups _freeze(option) disables, or the error.
_freeze(option) ==
    IF option = FreezePart
    THEN [err |-> "none", frozen |-> FeaturesParams \cup SeqParams(BfcButLast)]
    ELSE IF option = FreezeAll
    THEN [err |-> "none",
          frozen |-> FeaturesParams \cup SeqParams(bfc) \cup FcParams]
    ELSE [err |-> "ValueError", frozen |-> {}]

\* Lines 10-20: BilinearAlex.__init__ up to the freeze.
NetInit(fr) ==
    IF Truthy(fr) THEN _freeze(fr) ELSE [err |-> "none", frozen |-> {}]

\* Lines 22-30: the groups re-initialised by the Kaiming initialisation.
KaimingInit == LayerParams(BfcLast) \cup FcParams

\* Variant: the optimizer is built whatever the freeze mode.
BuildsSolverAlways(fr) == TRUE

\* Line 81: whether the optimizer and the scheduler are built.
BuildsSolver(fr) == fr # FreezeAll

\* Variant: the optimizer is built over self._net.parameters() unfiltered.
SolverParamsAll(rg) == Groups

\* Line 83: filter(lambda p: p.requires_grad, self._net.parameters())
SolverParams(rg) == {g \in Groups : rg[g]}

LrInit == 10          \* lr=0.001, in units of 1e-4
Patience == 3
LogEvery == 50
Margin == 1

NoParams == [g \in Groups |-> 0]

\* Lines 71-72, 151-153: the parameter values a checkpoint file holds.
LoadedParams == [g \in Groups |-> 0]

\* Lines 12-16, 22-30: the values after BilinearAlex.__init__: the two
\* re-initialised layers differ from the values they were created with.
InitialParams == [g \in Groups |-> IF g \in KaimingInit THEN 1 ELSE 0]

----------------------------------------------------------------------------
\* BilinearAlexManager

net_Idle ==
    /\ requires_grad = [g \in Groups |-> TRUE] /\ param = NoParams
    /\ has_solver = FALSE /\ solver_params = {} /\ lr = 0
    /\ num_bad_epochs = 0 /\ _batch = 1 /\ _epoch = 1

run_Idle ==
    /\ exc = "none" /\ t = 0 /\ batches = <<>> /\ bi = 0 /\ iter_num = 0
    /\ epoch_loss = <<>> /\ printed = <<>> /\ dists = <<>> /\ seen = <<>>
    /\ num_correct = 0 /\ num_total = 0 /\ accuracy = <<>> /\ saved = 0
    /\ processed = 0 /\ fwd = 0 /\ train_end = "never"

locals == <<t, batches, bi, iter_num, epoch_loss, printed, dists, seen,
            num_correct, num_total, accuracy, saved, processed, fwd>>

\* Lines 67-84 with BilinearAlex.__init__ (lines 10-30).
Construct ==
    /\ pc = "new"
    /\ LET net == NetInit(freeze) IN
       IF net.err # "none"
       THEN /\ pc' = "failed"
            /\ exc' = net.err
            /\ UNCHANGED <<requires_grad, param, has_solver, solver_params, lr,
                           num_bad_epochs, _batch, _epoch>>
       ELSE LET rg == [g \in Groups |-> g \notin net.frozen] IN
            /\ requires_grad' = rg
            /\ \E param_path \in BOOLEAN :
                 param' = IF param_path THEN LoadedParams ELSE InitialParams
            /\ _batch' = 1
            /\ _epoch' = 1
            /\ has_solver' = BuildsSolver(freeze)
            /\ solver_params' = IF BuildsSolver(freeze) THEN SolverParams(rg)
                                ELSE {}
            /\ lr' = IF BuildsSolver(freeze) THEN LrInit ELSE 0
            /\ num_bad_epochs' = 0
            /\ pc' = "idle"
            /\ exc' = "none"
    /\ UNCHANGED <<freeze, n_train, n_test, locals, train_end, ld_vars>>

\* self._batch (line 77) is a plain attribute: the caller may set it.
SetBatch(b) ==
    /\ pc = "idle"
    /\ _batch # b
    /\ _batch' = b
    /\ UNCHANGED <<freeze, requires_grad, param, has_solver,
                   solver_params, lr, num_bad_epochs, _epoch>>
    /\ UNCHANGED <<run_vars, ld_vars>>

\* self._epoch (line 79) is a plain attribute: the caller may set it.
SetEpoch(e) ==
    /\ pc = "idle"
    /\ _epoch # e
    /\ _epoch' = e
    /\ UNCHANGED <<freeze, requires_grad, param, has_solver,
                   solver_params, lr, num_bad_epochs, _batch>>
    /\ UNCHANGED <<run_vars, ld_vars>>

----------------------------------------------------------------------------
\* train()

config == <<freeze, requires_grad, has_solver, solver_params, lr,
            num_bad_epochs, _batch, _epoch, n_train, n_test>>

\* Locals of a finished call go out of scope.
ClearLocals ==
    /\ t' = 0 /\ batches' = <<>> /\ bi' = 0 /\ iter_num' = 0
    /\ epoch_loss' = <<>> /\ printed' = <<>> /\ dists' = <<>> /\ seen' = <<>>
    /\ num_correct' = 0 /\ num_total' = 0 /\ accuracy' = <<>> /\ saved' = 0
    /\ processed' = 0 /\ fwd' = 0

\* An exception leaves the call: position and exception name.
Raise(where, e) == pc' = where /\ exc' = e

\* Lines 86-88: train() is called.
TrainBegin ==
    /\ pc = "idle"
    /\ pc' = "train_epoch"
    /\ t' = 0
    /\ UNCHANGED <<exc, batches, bi, iter_num, epoch_loss, printed, dists, seen,
                   num_correct, num_total, accuracy, saved, processed, fwd,
                   param, train_end, config, ld_vars>>

\* Lines 89-94: next epoch (locals reset, the train batches are fetched from
\* _data_loader()), or the epoch loop ends.
TrainEpoch ==
    /\ pc = "train_epoch"
    /\ IF t < _epoch
       THEN /\ epoch_loss' = <<>>
            /\ num_correct' = 0
            /\ num_total' = 0
            /\ iter_num' = 0
            /\ printed' = <<>>
            /\ batches' = BatchLens(n_train, _batch)
            /\ bi' = 0
            /\ pc' = "train_for"
       ELSE /\ pc' = "train_save"
            /\ UNCHANGED <<epoch_loss, num_correct, num_total, iter_num,
                           printed, batches, bi>>
    /\ UNCHANGED <<exc, t, dists, seen, accuracy, saved, processed, fwd, param, train_end, config, ld_vars>>

\* Line 94: the inner for takes the next batch, or the inner loop ends.
TrainFor ==
    /\ pc = "train_for"
    /\ pc' = IF bi < Len(batches) THEN "train_load" ELSE "train_log"
    /\ UNCHANGED <<exc, locals, param, train_end, config, ld_vars>>

\* Line 96: _image_loader succeeds.
TrainImageLoad ==
    /\ pc = "train_load"
    /\ pc' = "train_zero"
    /\ UNCHANGED <<exc, locals, param, train_end, config, ld_vars>>

\* Line 98: self._solver.zero_grad(); the attribute exists only when the
\* constructor built it.
TrainZeroGrad ==
    /\ pc = "train_zero"
    /\ IF has_solver THEN pc' = "train_fwd" /\ exc' = exc
       ELSE Raise("train_raise", "AttributeError")
    /\ UNCHANGED <<locals, param, train_end, config, ld_vars>>

\* Lines 100-104: three forward passes, the loss (identified by the number
\* of its batch within the epoch) is appended to epoch_loss.
TrainForward ==
    /\ pc = "train_fwd"
    /\ fwd' = fwd + 3
    /\ epoch_loss' = Append(epoch_loss, iter_num + 1)
    /\ pc' = "train_bwd"
    /\ UNCHANGED <<exc, t, batches, bi, iter_num, printed, dists, seen,
                   num_correct, num_total, accuracy, saved, processed, param, train_end, config, ld_vars>>

\* Line 106: loss.backward()
TrainBackward ==
    /\ pc = "train_bwd"
    /\ pc' = "train_step"
    /\ UNCHANGED <<exc, locals, param, train_end, config, ld_vars>>

\* self._solver.step(): the optimizer gives a new value to every parameter
\* it was built over.
SgdStep(p, owned) ==
    [g \in Groups |-> IF g \in owned THEN (p[g] + 1) % ParamVersions ELSE p[g]]

\* Lines 107-108: optimizer step, iter_num += 1, back to the inner for.
TrainStep ==
    /\ pc = "train_step"
    /\ param' = SgdStep(param, solver_params)
    /\ iter_num' = iter_num + 1
    /\ processed' = processed + 1
    /\ bi' = bi + 1
    /\ pc' = "train_for"
    /\ UNCHANGED <<exc, t, batches, epoch_loss, printed, dists, seen,
                   num_correct, num_total, accuracy, saved, fwd, train_end, config, ld_vars>>

\* Variant: the checkpoint is written at the end of every epoch.
TrainLogSaving ==
    /\ pc = "train_log"
    /\ IF iter_num % LogEvery = 0
       THEN IF epoch_loss = <<>>
            THEN /\ Raise("train_raise", "IndexError")
                 /\ UNCHANGED <<printed, t, saved>>
            ELSE /\ printed' = Append(printed, epoch_loss[Len(epoch_loss)])
                 /\ t' = t + 1
                 /\ saved' = saved + 1
                 /\ pc' = "train_epoch"
                 /\ exc' = exc
       ELSE /\ t' = t + 1
            /\ saved' = saved + 1
            /\ pc' = "train_epoch"
            /\ UNCHANGED <<printed, exc>>
    /\ UNCHANGED <<batches, bi, iter_num, epoch_loss, dists, seen, num_correct,
                   num_total, accuracy, processed, fwd, param, train_end,
                   config, ld_vars>>

\* Lines 109-110, after the inner for: the last loss of the epoch is printed
\* when iter_num is a multiple of 50; epoch_loss[-1] of an empty list raises.
TrainLog ==
    /\ pc = "train_log"
    /\ IF iter_num % LogEvery = 0
       THEN IF epoch_loss = <<>>
            THEN /\ Raise("train_raise", "IndexError")
                 /\ UNCHANGED <<printed, t>>
            ELSE /\ printed' = Append(printed, epoch_loss[Len(epoch_loss)])
                 /\ t' = t + 1
                 /\ pc' = "train_epoch"
                 /\ exc' = exc
       ELSE /\ t' = t + 1
            /\ pc' = "train_epoch"
            /\ UNCHANGED <<printed, exc>>
    /\ UNCHANGED <<batches, bi, iter_num, epoch_loss, dists, seen, num_correct,
                   num_total, accuracy, saved, processed, fwd, param, train_end, config, ld_vars>>

\* Lines 111, 146-149: _save() writes the checkpoint.
TrainSave ==
    /\ pc = "train_save"
    /\ saved' = saved + 1
    /\ pc' = "train_ret"
    /\ UNCHANGED <<exc, t, batches, bi, iter_num, epoch_loss, printed, dists,
                   seen, num_correct, num_total, accuracy, processed, fwd,
                   param, train_end, config, ld_vars>>

\* A library call of the batch body fails: image load (line 96), forward
\* (lines 100-104), backward (line 106), optimizer step (line 107).
TrainFault ==
    /\ pc \in {"train_load", "train_fwd", "train_bwd", "train_step"}
    /\ Raise("train_raise",
             IF pc = "train_load" THEN "IOError"
             ELSE IF pc = "train_fwd" THEN "AssertionError"
             ELSE "RuntimeError")
    /\ UNCHANGED <<locals, param, train_end, config, ld_vars>>

----------------------------------------------------------------------------
\* test()

Dist == 0..MaxDist

\* Variant: strict comparison.
IsCorrectStrict(d) == d[1] - d[2] + Margin < 0

\* Line 124: d(a,p) - d(a,n) + margin <= 0 for one row.
IsCorrect(d) == d[1] - d[2] + Margin <= 0

\* Line 124: (... <= 0).sum() over the rows of the batch.
RECURSIVE CountCorrect(_)
CountCorrect(ds) ==
    IF ds = <<>> THEN 0
    ELSE (IF IsCorrect(Head(ds)) THEN 1 ELSE 0) + CountCorrect(Tail(ds))

\* Lines 113-117: test() is called; the test batches are fetched.
TestBegin ==
    /\ pc = "idle"
    /\ num_correct' = 0
    /\ num_total' = 0
    /\ batches' = BatchLens(n_test, _batch)
    /\ bi' = 0
    /\ pc' = "test_for"
    /\ UNCHANGED <<exc, t, iter_num, epoch_loss, printed, dists, seen, accuracy,
                   saved, processed, fwd, param, train_end, config,
                   ld_vars>>

\* Line 117: the for takes the next batch, or the loop ends.
TestFor ==
    /\ pc = "test_for"
    /\ pc' = IF bi < Len(batches) THEN "test_load" ELSE "test_print"
    /\ UNCHANGED <<exc, locals, param, train_end, config, ld_vars>>

\* Line 119: _image_loader succeeds.
TestImageLoad ==
    /\ pc = "test_load"
    /\ pc' = "test_fwd"
    /\ UNCHANGED <<exc, locals, param, train_end, config, ld_vars>>

\* Lines 121-123: three forward passes; the embeddings of the batch are
\* kept as the two squared distances of every row.
TestForward ==
    /\ pc = "test_fwd"
    /\ \E ds \in [1..batches[bi + 1] -> Dist \X Dist] : dists' = ds
    /\ fwd' = fwd + 3
    /\ pc' = "test_count"
    /\ UNCHANGED <<exc, t, batches, bi, iter_num, epoch_loss, printed, seen,
                   num_correct, num_total, accuracy, saved, processed, param, train_end, config, ld_vars>>

\* Lines 124-125: the counters are advanced.
TestCount ==
    /\ pc = "test_count"
    /\ num_correct' = num_correct + CountCorrect(dists)
    /\ num_total' = num_total + Len(dists)
    /\ seen' = seen \o dists
    /\ dists' = <<>>
    /\ bi' = bi + 1
    /\ pc' = "test_for"
    /\ UNCHANGED <<exc, t, batches, iter_num, epoch_loss, printed, accuracy,
                   saved, processed, fwd, param, train_end, config,
                   ld_vars>>

\* Line 126: num_correct/num_total is printed; a zero total raises.
TestPrint ==
    /\ pc = "test_print"
    /\ IF num_total = 0
       THEN Raise("test_raise", "ZeroDivisionError") /\ accuracy' = accuracy
       ELSE /\ accuracy' = <<num_correct, num_total>>
            /\ pc' = "test_ret"
            /\ exc' = exc
    /\ UNCHANGED <<t, batches, bi, iter_num, epoch_loss, printed, dists, seen,
                   num_correct, num_total, saved, processed, fwd, param, train_end, config, ld_vars>>

\* A library call of the batch body fails: image load (line 119), forward
\* (lines 121-123).
TestFault ==
    /\ pc \in {"test_load", "test_fwd"}
    /\ Raise("test_raise", IF pc = "test_load" THEN "IOError"
                           ELSE "AssertionError")
    /\ UNCHANGED <<locals, param, train_end, config, ld_vars>>

----------------------------------------------------------------------------
\* End of a call.

\* The call returns to its caller.
Return ==
    /\ pc \in {"train_ret", "test_ret"}
    /\ train_end' = IF pc = "train_ret" THEN "returned" ELSE train_end
    /\ ClearLocals
    /\ pc' = "idle"
    /\ UNCHANGED <<exc, param, config, ld_vars>>

\* The exception reaches the caller.
Propagate ==
    /\ pc \in {"train_raise", "test_raise"}
    /\ train_end' = IF pc = "train_raise" THEN exc ELSE train_end
    /\ ClearLocals
    /\ pc' = "idle"
    /\ exc' = "none"
    /\ UNCHANGED <<param, config, ld_vars>>

----------------------------------------------------------------------------
\* Specifications.

\* The dataset indexer alone, over every table, batch size and argument pair.
InitLoad ==
    /\ ld_pc = "start"
    /\ \E a \in LoadInputs :
         ld_part = a[1] /\ ld_ver = a[2] /\ gt_list = a[3]
    /\ ld_batch \in 1..MaxBatch
    /\ gt_path = "" /\ idx = <<>> /\ i = 0 /\ jpos = 0
    /\ a_bacth = <<>> /\ p_batch = <<>> /\ n_batch = <<>> /\ result = <<>>
    /\ pc = "off" /\ freeze = PyNone
    /\ n_train = 0 /\ n_test = 0
    /\ net_Idle /\ run_Idle

NextLoad == LoadResolve \/ LoadOpen \/ LoadFor \/ LoadRow \/ LoadAppend

SpecLoad == InitLoad /\ [][NextLoad]_vars

\* A manager: construction, then train() and test() calls in any order.
Init ==
    /\ ld_Idle
    /\ pc = "new"
    /\ freeze \in FreezeValues
    /\ n_train \in 0..MaxTrainRows
    /\ n_test \in 0..MaxTestRows
    /\ net_Idle /\ run_Idle

TrainNext ==
    \/ TrainBegin \/ TrainEpoch \/ TrainFor \/ TrainImageLoad \/ TrainZeroGrad
    \/ TrainForward \/ TrainBackward \/ TrainStep \/ TrainLog \/ TrainSave
    \/ TrainFault

TestNext ==
    \/ TestBegin \/ TestFor \/ TestImageLoad \/ TestForward \/ TestCount
    \/ TestPrint \/ TestFault

Next ==
    \/ Construct
    \/ \E b \in 1..MaxBatch : SetBatch(b)
    \/ \E e \in 1..MaxEpoch : SetEpoch(e)
    \/ TrainNext
    \/ TestNext
    \/ Return
    \/ Propagate

Spec == Init /\ [][Next]_vars

\* Evaluation runs: a manager on which only test() is called.
InitEval ==
    /\ ld_Idle
    /\ pc = "new"
    /\ freeze \in {FreezePart, FreezeAll}
    /\ n_train = 0
    /\ n_test \in 0..MaxEvalRows
    /\ net_Idle /\ run_Idle

NextEval ==
    \/ Construct
    \/ \E b \in 1..MaxBatch : SetBatch(b)
    \/ TestNext
    \/ Return
    \/ Propagate

SpecEval == InitEval /\ [][NextEval]_vars

\* Long training runs of the default manager (freeze='part').
InitLong ==
    /\ ld_Idle
    /\ pc = "new"
    /\ freeze = FreezePart
    /\ n_train \in 0..MaxLongRows
    /\ n_test = 0
    /\ net_Idle /\ run_Idle

NextLong ==
    \/ Construct
    \/ \E e \in 1..MaxLongEpoch : SetEpoch(e)
    \/ TrainBegin \/ TrainEpoch \/ TrainFor \/ TrainImageLoad \/ TrainZeroGrad
    \/ TrainForward \/ TrainBackward \/ TrainStep \/ TrainLog \/ TrainSave
    \/ TrainFault
    \/ Return
    \/ Propagate

SpecLong == InitLong /\ [][NextLong]_vars

----------------------------------------------------------------------------
\* Properties of sun360h_data_load (checked under SpecLoad).

\* Every batch built so far: the finished ones and the one under construction.
AllBatches ==
    IF ld_pc = "row" THEN Append(result, <<a_bacth, p_batch, n_batch>>)
    ELSE result

\* Positions (batch, row) of the returned result.
Emitted == {bk \in (1..Len(result)) \X (1..MaxRows + 1) :
              bk[2] <= Len(result[bk[1]][1])}

\* C1: when sun360h_data_load returns, every row index 0..n-1 of the
\* ground-truth table occurs at exactly one position of the pooled batches,
\* and no other index occurs.
C1_BatchesPartitionRows ==
    ld_pc = "returned" =>
        /\ \A j \in 0..(Len(gt_list) - 1) :
             Cardinality({bk \in Emitted : result[bk[1]][1][bk[2]][1] = j}) = 1
        /\ Cardinality(Emitted) = Len(gt_list)

C1_Witness ==
    /\ ld_pc = "returned"
    /\ Len(gt_list) = 3 /\ ld_batch = 2
    /\ Len(result) = 2
    /\ Len(result[2][1]) = 1
    /\ idx = <<2, 0, 1>>

\* C2: in every batch, finished or under construction, the candidate index
\* of each negative lies in 0..9 and differs from the positive_index of its
\* row, which is the candidate index of the positive at the same position.
C2_NegativeDiffers ==
    \A b \in 1..Len(AllBatches) :
        \A k \in 1..Len(AllBatches[b][3]) :
            LET row == AllBatches[b][1][k][1]
                pos == AllBatches[b][2][k][2]
                neg == AllBatches[b][3][k][2]
            IN /\ neg \in 0..9
               /\ pos = gt_list[row + 1]
               /\ neg # pos
               /\ AllBatches[b][3][k][1] = row

C2_Witness ==
    /\ ld_pc = "returned"
    /\ \E bk \in Emitted : /\ result[bk[1]][2][bk[2]][2] = 0
                           /\ result[bk[1]][3][bk[2]][2] = 9
    /\ \E bk \in Emitted : /\ result[bk[1]][2][bk[2]][2] = 1
                           /\ result[bk[1]][3][bk[2]][2] = 0
    /\ \E bk \in Emitted : /\ result[bk[1]][2][bk[2]][2] = 2
                           /\ result[bk[1]][3][bk[2]][2] = 3

----------------------------------------------------------------------------
\* Properties of the network and its manager.

Trainable == {g \in Groups : requires_grad[g]}

Constructed == pc \notin {"new", "failed", "off"}

TrainPcs == {"train_epoch", "train_for", "train_load", "train_zero",
             "train_fwd", "train_bwd", "train_step", "train_log",
             "train_save", "train_ret", "train_raise"}

TestPcs == {"test_for", "test_load", "test_fwd", "test_count", "test_print",
            "test_ret", "test_raise"}

\* C3: after construction the parameters with gradients enabled are: none
\* for freeze='all'; exactly the last bfc layer and fc for freeze='part';
\* all of them when no freeze is asked (freeze=None).
C3_TrainableSet ==
    Constructed =>
        /\ freeze = FreezeAll => Trainable = {}
        /\ freeze = FreezePart => Trainable = {"bfc.6", "fc"}
        /\ freeze = PyNone =>
             Trainable = {"features", "bfc.1", "bfc.4", "bfc.6", "fc"}

C3_Witness ==
    /\ pc = "idle"
    /\ freeze = FreezePart
    /\ Trainable = {"bfc.6", "fc"}
    /\ ~requires_grad["features"] /\ ~requires_grad["bfc.1"]
    /\ ~requires_grad["bfc.4"]

\* C4: construction fails with ValueError exactly for the freeze values
\* other than None, 'part' and 'all'.
C4_InvalidFreezeRejected ==
    pc # "new" =>
        ((pc = "failed" /\ exc = "ValueError")
            <=> freeze \notin {PyNone, FreezePart, FreezeAll})

\* C5: a train() run writes at most one checkpoint; it has written it
\* exactly when it is about to return, and then every batch of every epoch
\* has been processed; a run that ends by an exception has written none.
C5_SaveOnceAtEnd ==
    /\ saved <= 1
    /\ saved = 1 <=> pc = "train_ret"
    /\ pc = "train_ret" =>
         processed = _epoch * Len(BatchLens(n_train, _batch))
    /\ pc = "train_raise" => saved = 0

C5_Witness ==
    /\ pc = "train_ret"
    /\ saved = 1
    /\ _epoch = 2
    /\ processed = 4

\* C6: once the number of batches processed in the epoch is a positive
\* multiple of 50 and the next batch is being processed, the loss of that
\* 50th batch has been reported.
C6_ReportEvery50 ==
    (/\ pc \in {"train_load", "train_zero", "train_fwd", "train_bwd",
                "train_step"}
     /\ iter_num > 0
     /\ iter_num % LogEvery = 0)
        => \E q \in 1..Len(printed) : printed[q] = iter_num

\* C7: when test() has printed the accuracy, num_total is the number of
\* test rows, num_correct is the number of rows with
\* d(a,p) - d(a,n) + 1 <= 0, and the pair reported is (num_correct,
\* num_total) with 0 <= num_correct <= num_total.
C7_TestCounters ==
    pc = "test_ret" =>
        /\ n_test > 0
        /\ num_total = n_test
        /\ Len(seen) = n_test
        /\ num_correct =
             Cardinality({k \in 1..Len(seen) : seen[k][1] - seen[k][2] + 1 <= 0})
        /\ 0 <= num_correct /\ num_correct <= num_total
        /\ accuracy = <<num_correct, num_total>>

C7_Witness ==
    /\ pc = "test_ret"
    /\ n_test = 3 /\ _batch = 2
    /\ seen = <<<<0, 1>>, <<2, 0>>, <<0, 2>>>>
    /\ accuracy = <<2, 3>>

\* C8: a train() run that has completed more than patience + 1 epochs (the
\* monitored metric is never improved by the run) has a reduced learning
\* rate.
C8_LrReduced ==
    (pc = "train_save" /\ t > Patience + 1) => lr < LrInit

\* C9: after construction no step re-enables or disables a gradient, a
\* parameter group with its gradient disabled keeps its value, and the only
\* step that changes a parameter is the optimizer step of train().
C9_FrozenStayFrozen ==
    [][Constructed =>
        /\ requires_grad' = requires_grad
        /\ \A g \in Groups : ~requires_grad[g] => param'[g] = param[g]
        /\ param' # param => pc = "train_step"]_vars

C9_Witness ==
    /\ freeze = FreezePart
    /\ pc = "train_ret"
    /\ processed = 1
    /\ param = [InitialParams EXCEPT !["bfc.6"] = 0, !["fc"] = 0]

\* C10: on a manager built with freeze='all', a train() call over a
\* non-empty train table never gets past zero_grad of its first batch: no
\* forward pass, no optimizer step, no checkpoint, and it ends by an
\* exception (AttributeError, or the image load failing before it); a test()
\* call on that manager never fails for the missing optimizer.
C10_FrozenManagerTrainAborts ==
    freeze = FreezeAll =>
        /\ (pc \in TrainPcs /\ n_train > 0) =>
             /\ pc \in {"train_epoch", "train_for", "train_load", "train_zero",
                        "train_raise"}
             /\ t = 0 /\ bi = 0 /\ fwd = 0 /\ processed = 0 /\ saved = 0
             /\ pc = "train_raise" => exc \in {"AttributeError", "IOError"}
        /\ (n_train > 0 => train_end \in {"never", "AttributeError", "IOError"})
        /\ pc = "test_raise" =>
             /\ exc \in {"IOError", "AssertionError", "ZeroDivisionError"}
             /\ exc = "ZeroDivisionError" => n_test = 0

C10_Witness ==
    /\ freeze = FreezeAll
    /\ n_train > 0
    /\ train_end = "AttributeError"
    /\ pc = "test_ret"
    /\ num_total = n_test

====
